---- MODULE Spec2Model ----
(***************************************************************************)
(* LMPResume: the checkpoint/resume engine.                                *)
(*                                                                         *)
(* One job directory (state.json, the NORESTART marker), the driver        *)
(* (AZAZ.reborn) and one process of a worker (AZAZ.main on rank `rank`)    *)
(* running StateManager.restart / first_run / run over a fixed stage list. *)
(* Time is counted in abstract ticks; user hooks are opaque steps that may *)
(* take time and, for the stages' work functions, raise.                   *)
(*                                                                         *)
(* A second specification, RanksSpec, follows all the ranks of one worker  *)
(* through the stage loop and the shutdown of AZAZ.main, with the inside   *)
(* of the stages left out. A third one, CodecSpec, runs the JSON decoder   *)
(* of serial.py on small documents, and a fourth, CaptureSpec, follows the *)
(* descriptors of a process through the capture scopes of util.py. The     *)
(* last one, JobSpec, follows a job over its resubmissions, under          *)
(* fairness.                                                               *)
(***************************************************************************)
EXTENDS Integers, Sequences, FiniteSets, TLC

\* ---------------------------------------------------------------- bounds
StageLen == 2      \* largest stage_len a module gives its LongStage
MaxTime == 1       \* largest --max_time handed to a worker, in ticks; the
                   \* clock is followed up to it (later, every check raises)
MaxStep == 1       \* largest step counter of a restart slot
MaxLaunches == 2   \* worker invocations per job
MaxRunNo == 0      \* the driver is run while run_no stays <= this
MaxAdditional == 1 \* largest `additional` a module gives its LongStage
NRanks == 2        \* ranks of the worker followed by RanksSpec
MaxVal == 1        \* largest member value of a decoded document
MaxDepth == 2      \* capture scopes open at the same time
MaxScopes == 3     \* capture scopes a process enters
MaxLines == 2      \* lines printed to one target
JobMaxTime == 3    \* largest --max_time of the resubmitted job, in ticks

\* ------------------------------------------------------- program constants
PtrDefault == 0        \* argparse default of --ptr
RunNoDefault == -1     \* StateManager.__init__ default of run_no
NoSlot == -1           \* step of a missing restart slot
Additional == 0        \* LongStage.attach default of additional
DeltaSafe == 1         \* default of delta_safe (5*60 s): one tick is 300 s

\* The stage list of the job (the scenario of the spec, section 8).
StageKind == <<"fast", "long", "fast">>
NStages == Len(StageKind)
Keys == 1..NStages

NoRec == [kind |-> "none"]
FastRec(s, e) == [kind |-> "fast", started |-> s, ended |-> e]
LongRec(t, n) == [kind |-> "long", total_time |-> t, tries |-> n]
EmptyState == [k \in Keys |-> NoRec]

\* --ptr: <<>> when the argument is absent, <<p>> when given (a cursor inside
\* the stage list, and one beyond its end)
PtrArgs == {<<>>, <<1>>, <<NStages + 1>>}

VARIABLES
  file, marker,                                   \* the job directory
  pc, rank, endflag, ptrArg, restart_flag, max_time,
  fr_norestart, ptr, run_no, st, elapsed,         \* the worker process
  i, last_ptr, run_endflag,                       \* locals of run
  it, tries, total_time, stage_len, additional,   \* locals of go, the stage
  conf_len, conf_additional,                      \* the stage as the module
                                                  \* of this invocation has it
  step_a, step_b, restartpath,                    \* locals of find_restart
  exc, status,
  launches, goReturned, runCount, otherSeen, ptrGiven, \* history of the job
  dumps, ends, shutdowns, markerAtLaunch, cursorAtLaunch, frRuns,
  fallbacks,                                      \* history of the invocation
  goCalls, runCalls, postruns, go_rec, checksSince, \* history of the calls
  goDone, ranWith,                                \* what the job has done
  hooks,                                          \* hooks called so far
  wpc, wptr, wexc, wclock, wmax_time,             \* the ranks of a worker
  wentered, wfile, wfinal,
  document, types2dec, decoded,                   \* the JSON decoder
  cap_cfg, fds, scopes, raised, entered, out, left, \* the capture scopes
  jfile, jmarker, jpc, jptr, ji, jlast_ptr, jtries,
  jclock, jmax_time                               \* the resubmitted job

disk == <<file, marker>>
args == <<rank, endflag, ptrArg, restart_flag, max_time>>
mgr == <<ptr, run_no, st>>
loop == <<i, last_ptr, run_endflag>>
golocals == <<it, tries, total_time, stage_len, additional>>
script == <<conf_len, conf_additional>>
probe == <<step_a, step_b, restartpath>>
jobhist == <<launches, goReturned, runCount, otherSeen, ptrGiven>>
invhist == <<dumps, ends, shutdowns, markerAtLaunch, cursorAtLaunch, frRuns,
             fallbacks>>
calls == <<goCalls, runCalls, postruns, go_rec, checksSince>>
progress == <<goDone, ranWith>>
worker == <<disk, pc, args, fr_norestart, mgr, elapsed, loop, golocals,
            script, probe, exc, status, jobhist, invhist, calls, progress,
            hooks>>
ranks == <<wpc, wptr, wexc, wclock, wmax_time, wentered, wfile, wfinal>>
codec == <<document, types2dec, decoded>>
capture == <<cap_cfg, fds, scopes, raised, entered, out, left>>
job == <<jfile, jmarker, jpc, jptr, ji, jlast_ptr, jtries, jclock, jmax_time>>
aside == <<codec, capture, job>>
vars == <<worker, ranks, aside>>

\* ------------------------------------------------------------- helpers

\* AZAZ.__init__: args.ptr, with argparse's default for a missing --ptr
ArgPtr(pa) == IF pa = <<>> THEN PtrDefault ELSE pa[1]

\* AZAZ.__init__: `if args.norestart is not None: self.__norestart = True`;
\* a store_true argument is False or True, never None
ParseNorestart(given) == given \in BOOLEAN

DumpOfAhead(p, r, s) ==
  [exists |-> TRUE, ptr |-> p + 1, run_no |-> r, st |-> s]

\* AZAZ.dumpit: the document written to state.json
DumpOf(p, r, s) == [exists |-> TRUE, ptr |-> p, run_no |-> r, st |-> s]

DumpWritesAlways(r) == TRUE

\* StateManager.attach: the real callback on rank 0, fake_callback elsewhere
DumpWrites(r) == r = 0

\* state.json after one call of self.dump_callback()
Dumped(p, s) == IF DumpWrites(rank) THEN DumpOf(p, run_no, s) ELSE file

TimeCheckRaisesAtLimit(el, mt, ds) == el >= mt - ds

\* StateManager.time_check: the condition of the raise
TimeCheckRaises(el, mt, ds) == el > mt - ds

find_restart_ties_a(a, b) ==
  IF a = NoSlot /\ b = NoSlot THEN "FirstRunFallback"
  ELSE IF a >= b THEN "restart.a" ELSE "restart.b"

\* StateManager.find_restart: the decision on the two step counters
find_restart(a, b) ==
  IF a = NoSlot /\ b = NoSlot THEN "FirstRunFallback"
  ELSE IF a > b THEN "restart.a" ELSE "restart.b"

ShutdownCallsUnlessNoTime(e) == IF e = "NoTimeLeft" THEN 0 ELSE 1

\* StateManager.__exit__: self.shutdown() is called once, whatever exc_type
ShutdownCalls(e) == 1

ExitMarksOnFailure(e, r) == e \notin {"NoTimeLeft", "none"} /\ r = 0

\* StateManager.__exit__: the condition of norestart()
ExitMarks(e, r) == e # "NoTimeLeft" /\ r = 0

SwallowsAll(e) == e # "none"

\* AZAZ.main: `except NoTimeLeft: pass`
Swallowed(e) == e = "NoTimeLeft"

\* AZAZ.main: `finally: if rank == 0: self.dumpit()`
FinalDumps(r) == r = 0

DispatchFirstRun(flag) == "first_run"

\* AZAZ.main: `if self.restart_flag: st.restart(...) else: st.first_run(...)`
Dispatch(flag) == IF flag THEN "restart" ELSE "first_run"

get_time_tries_fresh(s, k) == <<0, 0>>

\* LongStage.get_time_tries: the pair read from the progress record
get_time_tries(s, k) ==
  IF s[k] # NoRec THEN <<s[k].total_time, s[k].tries>> ELSE <<0, 0>>

RestartEndflagDropped(ef) == FALSE

\* StateManager.restart: the argument of `self.run(endflag)`
RestartEndflag(ef) == ef

\* LongStage.attach as StateManager.run calls it, `stage.attach(self)`: the
\* stage's additional becomes the parameter's default; Stage.attach (a
\* FastStage) has no such attribute
AttachAdditional(kind, a) == IF kind = "long" THEN Additional ELSE a

MarkEndedNot(s, k) == s

\* FastStage.go: self.manager.state[self.stage_key]["ended"] = True
MarkEnded(s, k) == [s EXCEPT ![k].ended = TRUE]

CountTryTwice(n) == n + 2

\* LongStage.go: tries += 1
CountTry(n) == n + 1

NextCursorSame(p) == p

\* StateManager.run: self.ptr += 1
NextCursor(p) == p + 1

SkippedNever(idx, lp) == FALSE

\* StateManager.run: `if i < last_ptr: continue`
Skipped(idx, lp) == idx < lp

InRangeInclusive(n, len) == n <= len

\* LongStage.go: `for it in range(tries, self.stage_len)` goes on while
\* it < stage_len
InRange(n, len) == n < len

AfterIterNoCheck(ok) == IF ok THEN "long_loop" ELSE "exit"

\* LongStage.go: after run(it) returned the record is updated and
\* time_check() is called; an exception of run(it) leaves go()
AfterIter(ok) == IF ok THEN "long_check" ELSE "exit"

\* ------------------------------------------------- JSON values (serial.py)

\* JSON null, and the result of a decoding that has not been run
Null == [kind |-> "null"]
Pending == [kind |-> "pending"]

\* the classes a registry can hold, and the "__type" values a document can
\* carry: those names, one that no registry holds, or no "__type" key
Classes == {"A", "B"}
Discriminators == Classes \cup {"X", "absent"}

\* a JSON object: its "__type" (or "absent"), one more member, and a member
\* that is null or a JSON object
Obj(t, v, c) == [kind |-> "object", type |-> t, val |-> v, child |-> c]

\* what _type.__rejs__(_type, **obj) returns: an instance of the class
Instance(cls, obj) ==
  [kind |-> "instance", cls |-> cls, val |-> obj.val, child |-> obj.child]

\* object_hook: `for _type in types2dec`, from position n on; the class of
\* the first name equal to obj["__type"], "none" when the loop runs out
RECURSIVE Lookup(_, _, _)
Lookup(reg, name, n) ==
  IF n > Len(reg) THEN "none"
  ELSE IF name = reg[n] THEN reg[n]
  ELSE Lookup(reg, name, n + 1)

\* UtilJSONDecoder.object_hook
object_hook(obj, reg) ==
  IF obj.type # "absent" /\ Lookup(reg, obj.type, 1) # "none"
  THEN Instance(Lookup(reg, obj.type, 1), obj)
  ELSE obj

\* json.JSONDecoder.decode with the hook: the hook is applied to the inner
\* object first, and the outer object is handed over with the result in it
Loads(doc, reg) ==
  LET c == IF doc.child.kind = "object" THEN object_hook(doc.child, reg)
           ELSE doc.child
  IN object_hook([doc EXCEPT !.child = c], reg)

\* --------------------------------------------- capture scopes (util.py)

\* what a descriptor can refer to: the job's standard output, the manager's
\* capture file, a file the caller names; or the descriptor is not open
Targets == {"terminal", "capturedump", "other"}
MaxFd == 1 + 2 * MaxDepth

\* a scope object: do_capture, the descriptors fp.fileno() and stdout_orig
\* (0: not set), and what descriptor 1 referred to when the scope was entered
Scope(c, f, o, e) ==
  [do_capture |-> c, fp |-> f, stdout_orig |-> o, entry |-> e]
NoScope == Scope(FALSE, 0, 0, "closed")

\* AZAZ.__init__: --capture yes / no / release as the manager's do_capture
\* (True, False, None), and CaptureManager.file: the manager's value if it
\* is not None, else the caller's (arg) if that is not None, else True
Cap(cfg, arg) ==
  IF cfg # "release" THEN cfg = "yes"
  ELSE IF arg # "none" THEN arg = "yes"
  ELSE TRUE

\* the descriptor a new open() or dup() gets: the lowest one not in use
LowestFree(tbl) ==
  CHOOSE n \in 2..MaxFd :
    tbl[n] = "closed" /\ \A m \in 2..(n - 1) : tbl[m] # "closed"

\* OutputCaptureFile.__enter__ with do_capture: file.open('a'), os.dup of
\* descriptor 1, os.dup2 of the file onto descriptor 1
Redirected(tbl, f) ==
  LET a == LowestFree(tbl)
      t1 == [tbl EXCEPT ![a] = f]
      b == LowestFree(t1)
      t2 == [t1 EXCEPT ![b] = t1[1]]
  IN [t2 EXCEPT ![1] = t2[a]]

RestoredNot(tbl, sc) ==
  [tbl EXCEPT ![sc.stdout_orig] = "closed", ![sc.fp] = "closed"]

\* OutputCaptureFile.__exit__ with do_capture: os.dup2 of stdout_orig onto
\* descriptor 1, os.close(stdout_orig), fp.close()
Restored(tbl, sc) ==
  [tbl EXCEPT ![1] = tbl[sc.stdout_orig],
              ![sc.stdout_orig] = "closed", ![sc.fp] = "closed"]

\* ---------------------------------------------------------------- Init

InitWorker ==
  /\ file = [exists |-> FALSE, ptr |-> PtrDefault, run_no |-> RunNoDefault,
             st |-> EmptyState]
  /\ marker = FALSE
  /\ pc = "idle"
  /\ rank = 0 /\ endflag = FALSE /\ ptrArg = <<>>
  /\ restart_flag = FALSE /\ max_time = 0 /\ fr_norestart = FALSE
  /\ ptr = PtrDefault /\ run_no = RunNoDefault /\ st = EmptyState
  /\ elapsed = 0
  /\ i = 0 /\ last_ptr = 0 /\ run_endflag = FALSE
  /\ it = 0 /\ tries = 0 /\ total_time = 0 /\ stage_len = StageLen
  /\ additional = Additional
  /\ conf_len = StageLen /\ conf_additional = Additional
  /\ step_a = NoSlot /\ step_b = NoSlot /\ restartpath = "none"
  /\ exc = "none" /\ status = "none"
  /\ launches = 0 /\ goReturned = 0
  /\ runCount = [k \in Keys |->
                   [n \in 0..(StageLen + MaxAdditional - 1) |-> 0]]
  /\ otherSeen = FALSE /\ ptrGiven = FALSE
  /\ dumps = 0 /\ ends = 0 /\ shutdowns = 0 /\ markerAtLaunch = FALSE
  /\ cursorAtLaunch = PtrDefault
  /\ frRuns = 0 /\ fallbacks = 0
  /\ goCalls = 0 /\ runCalls = 0 /\ postruns = 0 /\ go_rec = NoRec
  /\ checksSince = 0
  /\ goDone = {} /\ ranWith = [k \in Keys |-> 0]
  /\ hooks = <<>>

Ranks == 0..(NRanks - 1)

\* no worker is followed rank by rank
InitRanks ==
  /\ wpc = [r \in Ranks |-> "idle"]
  /\ wptr = [r \in Ranks |-> PtrDefault]
  /\ wexc = [r \in Ranks |-> "none"]
  /\ wclock = [r \in Ranks |-> 0]
  /\ wmax_time = 0
  /\ wentered = [r \in Ranks |-> 0]
  /\ wfile = NoSlot
  /\ wfinal = FALSE

\* no document is being decoded
InitCodec == document = Null /\ types2dec = <<>> /\ decoded = Pending

\* the descriptors of a process that has entered no capture scope
InitCapture ==
  /\ fds = [n \in 1..MaxFd |-> IF n = 1 THEN "terminal" ELSE "closed"]
  /\ scopes = <<>> /\ raised = "none" /\ entered = 0
  /\ out = [t \in Targets |-> 0]
  /\ left = NoScope

\* a job directory in which nothing has run, the job waiting to be submitted
InitJob ==
  /\ jfile = [ptr |-> PtrDefault, tries |-> 0] /\ jmarker = FALSE
  /\ jpc = "queued"
  /\ jptr = PtrDefault /\ ji = 0 /\ jlast_ptr = 0 /\ jtries = 0
  /\ jclock = 0 /\ jmax_time = 0

InitAside == InitCodec /\ cap_cfg = "release" /\ InitCapture /\ InitJob

Init == InitWorker /\ InitRanks /\ InitAside

\* ------------------------------------------------------------- the driver

\* AZAZ.__init__ + AZAZ.reborn: load state.json if present (the command line's
\* ptr laid over it), run_no += 1, dumpit(), submit the worker. The driver is
\* run as the orchestrator runs it (after_cmd), without --ptr.
Reborn ==
  /\ pc \in {"idle", "done"}
  /\ LET r == IF file.exists THEN file.run_no ELSE RunNoDefault
         s == IF file.exists THEN file.st ELSE EmptyState
     IN /\ r + 1 <= MaxRunNo
        /\ file' = DumpOf(ArgPtr(<<>>), r + 1, s)
  /\ pc' = "idle"
  /\ UNCHANGED <<ranks, aside, progress, hooks>>
  /\ UNCHANGED <<marker, args, fr_norestart, mgr, elapsed, loop, golocals,
                 script, probe, exc, status, jobhist, invhist, calls>>

\* ------------------------------------------------------------- the worker

\* AZAZ.__init__ (the manager is loaded from state.json with the command
\* line laid over it), then AZAZ.main up to the dispatch inside the run scope:
\* StateManager.attach, init (starttime) and __enter__.
\* The process followed is the one of rank r of the worker. state.json shows
\* what rank 0 wrote, so a job is followed further only through its rank 0
\* processes: the next invocation starts from what this one left on disk.
Launch(r, ef, pa, mt, nr) ==
  /\ pc \in {"idle", "done"}
  /\ launches < MaxLaunches
  /\ rank = 0
  /\ rank' = r /\ endflag' = ef /\ ptrArg' = pa
  /\ max_time' = mt
  /\ restart_flag' = file.exists
  /\ fr_norestart' = ParseNorestart(nr)
  /\ ptr' = ArgPtr(pa)
  /\ run_no' = IF file.exists THEN file.run_no ELSE RunNoDefault
  /\ st' = IF file.exists THEN file.st ELSE EmptyState
  /\ elapsed' = 0
  /\ i' = 0 /\ last_ptr' = 0 /\ run_endflag' = FALSE
  /\ it' = 0 /\ tries' = 0 /\ total_time' = 0
  /\ stage_len' = StageLen /\ additional' = Additional
  /\ conf_len' = StageLen /\ conf_additional' = Additional
  /\ step_a' = NoSlot /\ step_b' = NoSlot /\ restartpath' = "none"
  /\ exc' = "none" /\ status' = "running"
  /\ pc' = Dispatch(file.exists)
  /\ launches' = launches + 1
  /\ ptrGiven' = (ptrGiven \/ pa # <<>>)
  /\ dumps' = 0 /\ ends' = 0 /\ shutdowns' = 0 /\ markerAtLaunch' = marker
  /\ cursorAtLaunch' = file.ptr
  /\ frRuns' = 0 /\ fallbacks' = 0
  /\ goCalls' = 0 /\ runCalls' = 0 /\ postruns' = 0 /\ go_rec' = NoRec
  /\ checksSince' = 0
  /\ hooks' = <<>>
  /\ UNCHANGED <<ranks, aside, progress>>
  /\ UNCHANGED <<disk, goReturned, runCount, otherSeen>>

\* StateManager.restart up to the choice of the restart file: startup, then
\* the file of --restartfile (given: rf) or find_restart() on the step
\* counters a, b the engine reads from the slots (got = FALSE: the engine
\* gave no step for a slot that exists, "Error getting step"). The
\* FirstRunFallbackTrigger of find_restart is caught by AZAZ.main, which goes
\* on to first_run() with norestart left at its default.
Restart(rf, got) ==
  /\ pc = "restart"
  /\ IF rf
     THEN /\ got
          /\ restartpath' = "explicit"
          /\ pc' = "read_restart"
          /\ UNCHANGED <<step_a, step_b, fr_norestart, fallbacks, exc,
                         otherSeen>>
     ELSE \E a \in NoSlot..MaxStep, b \in NoSlot..MaxStep :
            IF ~got
               THEN /\ ~(a = NoSlot /\ b = NoSlot)
                    /\ exc' = "Other" /\ otherSeen' = TRUE
                    /\ pc' = "exit"
                    /\ UNCHANGED <<probe, fr_norestart, fallbacks>>
               ELSE /\ step_a' = a /\ step_b' = b
                    /\ restartpath' = find_restart(a, b)
                    /\ UNCHANGED <<exc, otherSeen>>
                    /\ IF find_restart(a, b) = "FirstRunFallback"
                       THEN /\ pc' = "first_run"
                            /\ fr_norestart' = FALSE
                            /\ fallbacks' = fallbacks + 1
                       ELSE /\ pc' = "read_restart"
                            /\ UNCHANGED <<fr_norestart, fallbacks>>
  /\ hooks' = Append(hooks, "startup")
  /\ UNCHANGED <<ranks, aside, progress>>
  /\ UNCHANGED <<disk, args, mgr, elapsed, loop, golocals, script, status,
                 launches, goReturned, runCount, ptrGiven, dumps, ends,
                 shutdowns, markerAtLaunch, cursorAtLaunch, frRuns, calls>>

\* StateManager.restart after the choice: read_restart, run 0, setup, and
\* the call self.run(endflag)
ReadRestart ==
  /\ pc = "read_restart"
  /\ step_a' = NoSlot /\ step_b' = NoSlot /\ restartpath' = "none"
  /\ run_endflag' = RestartEndflag(endflag)
  /\ pc' = "run"
  /\ UNCHANGED <<ranks, aside, progress, hooks>>
  /\ UNCHANGED <<disk, args, fr_norestart, mgr, elapsed, i, last_ptr, golocals,
                 script, exc, status, jobhist, invhist, calls>>

\* StateManager.first_run up to the stage loop: norestart() if asked (on
\* whichever rank runs it), build, startup, initialize_system, run 0, setup,
\* and the call self.run(False)
FirstRun ==
  /\ pc = "first_run"
  /\ marker' = (marker \/ fr_norestart)
  /\ frRuns' = frRuns + 1
  /\ restartpath' = "none"
  /\ run_endflag' = FALSE
  /\ pc' = "run"
  /\ hooks' = hooks \o <<"build", "startup">>
  /\ UNCHANGED <<ranks, aside, progress>>
  /\ UNCHANGED <<file, args, fr_norestart, mgr, elapsed, i, last_ptr, golocals,
                 script, step_a, step_b, exc, status, jobhist, dumps, ends,
                 shutdowns, markerAtLaunch, cursorAtLaunch, fallbacks, calls>>

\* StateManager.run: entry
RunEnter ==
  /\ pc = "run"
  /\ IF ~run_endflag
     THEN /\ last_ptr' = ptr /\ i' = 0 /\ pc' = "loop"
          /\ UNCHANGED run_endflag
     ELSE /\ pc' = "end" /\ UNCHANGED loop
  /\ UNCHANGED <<ranks, aside, progress, hooks>>
  /\ UNCHANGED <<disk, args, fr_norestart, mgr, elapsed, golocals, script,
                 probe, exc, status, jobhist, invhist, calls>>

\* StateManager.run: the head of `for i, stage in enumerate(self.stages)`,
\* the skip of the stages below last_ptr and stage.attach(self). The
\* LongStage is the one the module of this invocation defines, with
\* stage_len L and additional E: they are first read here.
LoopNext(L, E) ==
  /\ pc = "loop"
  /\ IF i < NStages /\ ~Skipped(i, last_ptr) /\ StageKind[i + 1] = "long"
     THEN /\ conf_len' = L /\ conf_additional' = E
          /\ stage_len' = L
          /\ additional' = AttachAdditional(StageKind[i + 1], E)
          /\ pc' = "go"
          /\ UNCHANGED i
     ELSE /\ L = StageLen /\ E = Additional
          /\ UNCHANGED <<script, stage_len, additional>>
          /\ IF i >= NStages THEN pc' = "end" /\ UNCHANGED i
             ELSE IF Skipped(i, last_ptr) THEN i' = i + 1 /\ UNCHANGED pc
             ELSE pc' = "go" /\ UNCHANGED i
  /\ UNCHANGED <<ranks, aside, progress, hooks>>
  /\ UNCHANGED <<disk, args, fr_norestart, mgr, elapsed, last_ptr, run_endflag,
                 it, tries, total_time, probe, exc, status, jobhist, invhist,
                 calls>>

\* FastStage.go up to the work function: the record, then a checkpoint
FastGoBegin ==
  /\ pc = "go" /\ StageKind[i + 1] = "fast"
  /\ go_rec' = st[i + 1]
  /\ goCalls' = goCalls + 1 /\ runCalls' = 0
  /\ st' = IF st[i + 1] # NoRec THEN st
           ELSE [st EXCEPT ![i + 1] = FastRec(TRUE, FALSE)]
  /\ file' = Dumped(ptr, st')
  /\ dumps' = dumps + 1
  /\ pc' = "fast_run"
  /\ UNCHANGED <<ranks, aside, progress, hooks>>
  /\ UNCHANGED <<marker, args, fr_norestart, ptr, run_no, elapsed, loop,
                 golocals, script, probe, exc, status, jobhist, ends,
                 shutdowns, markerAtLaunch, cursorAtLaunch, frRuns, fallbacks,
                 postruns, checksSince>>

\* FastStage.go: self.run(), which takes d ticks and returns or raises; after
\* a return ended = True and a checkpoint
FastRun(d, ok) ==
  /\ pc = "fast_run"
  /\ elapsed + d <= MaxTime
  /\ elapsed' = elapsed + d
  /\ runCalls' = runCalls + 1
  /\ IF ok
     THEN /\ st' = MarkEnded(st, i + 1)
          /\ file' = Dumped(ptr, st')
          /\ dumps' = dumps + 1
          /\ goReturned' = goReturned + 1
          /\ checksSince' = 0
          /\ pc' = "after_go"
          /\ UNCHANGED <<exc, otherSeen>>
     ELSE /\ exc' = "Other" /\ otherSeen' = TRUE
          /\ pc' = "exit"
          /\ UNCHANGED <<st, file, dumps, goReturned, checksSince>>
  /\ goDone' = (IF ok THEN goDone \cup {i + 1} ELSE goDone)
  /\ UNCHANGED <<ranks, aside, ranWith, hooks>>
  /\ UNCHANGED <<marker, args, fr_norestart, ptr, run_no, loop, golocals,
                 script, probe, status, launches, runCount, ptrGiven, ends,
                 shutdowns, markerAtLaunch, cursorAtLaunch, frRuns, fallbacks,
                 goCalls, postruns, go_rec>>

\* LongStage.go up to the iteration loop: get_time_tries, a checkpoint,
\* prerun, stage_len += additional
LongGoBegin ==
  /\ pc = "go" /\ StageKind[i + 1] = "long"
  /\ go_rec' = st[i + 1]
  /\ goCalls' = goCalls + 1 /\ runCalls' = 0 /\ postruns' = 0
  /\ total_time' = get_time_tries(st, i + 1)[1]
  /\ tries' = get_time_tries(st, i + 1)[2]
  /\ st' = IF st[i + 1] # NoRec THEN st
           ELSE [st EXCEPT ![i + 1] = LongRec(0, 0)]
  /\ file' = Dumped(ptr, st')
  /\ dumps' = dumps + 1
  /\ stage_len' = stage_len + additional
  /\ it' = tries'
  /\ pc' = "long_loop"
  /\ UNCHANGED <<ranks, aside, progress, hooks>>
  /\ UNCHANGED <<marker, args, fr_norestart, ptr, run_no, elapsed, loop,
                 additional, script, probe, exc, status, jobhist, ends,
                 shutdowns, markerAtLaunch, cursorAtLaunch, frRuns, fallbacks,
                 checksSince>>

\* LongStage.go: one pass of `for it in range(tries, self.stage_len)` up to
\* the time check: run(it) takes d ticks and returns or raises
LongIter(d, ok) ==
  /\ pc = "long_loop"
  /\ IF InRange(it, stage_len)
     THEN /\ elapsed + d <= MaxTime
          /\ elapsed' = elapsed + d
          /\ runCalls' = runCalls + 1
          /\ pc' = AfterIter(ok)
          /\ IF ok
             THEN /\ runCount' = [runCount EXCEPT ![i + 1][it] = @ + 1]
                  /\ total_time' = total_time + d
                  /\ tries' = CountTry(tries)
                  /\ st' = [st EXCEPT ![i + 1] = LongRec(total_time', tries')]
                  /\ checksSince' = 0
                  /\ UNCHANGED <<exc, otherSeen>>
             ELSE /\ exc' = "Other" /\ otherSeen' = TRUE
                  /\ UNCHANGED <<runCount, total_time, tries, st, checksSince>>
     ELSE /\ d = 0 /\ ok
          /\ pc' = "long_post"
          /\ UNCHANGED <<elapsed, runCount, total_time, tries, st, exc,
                         otherSeen, runCalls, checksSince>>
  /\ UNCHANGED <<ranks, aside, progress, hooks>>
  /\ UNCHANGED <<disk, args, fr_norestart, ptr, run_no, loop, it, stage_len,
                 additional, script, probe, status, launches, goReturned,
                 ptrGiven, invhist, goCalls, postruns, go_rec>>

\* LongStage.go: self.manager.time_check() at the end of an iteration
LongTimeCheck ==
  /\ pc = "long_check"
  /\ checksSince' = checksSince + 1
  /\ IF TimeCheckRaises(elapsed, max_time, DeltaSafe)
     THEN /\ file' = Dumped(ptr, st)
          /\ dumps' = dumps + 1
          /\ exc' = "NoTimeLeft"
          /\ pc' = "exit"
          /\ UNCHANGED it
     ELSE /\ it' = it + 1
          /\ pc' = "long_loop"
          /\ UNCHANGED <<file, dumps, exc>>
  /\ UNCHANGED <<ranks, aside, progress, hooks>>
  /\ UNCHANGED <<marker, args, fr_norestart, mgr, elapsed, loop, tries,
                 total_time, stage_len, additional, script, probe, status,
                 jobhist, ends, shutdowns, markerAtLaunch, cursorAtLaunch,
                 frRuns, fallbacks, goCalls, runCalls, postruns, go_rec>>

\* LongStage.go after the loop: checkpoint, postrun, checkpoint
LongPost ==
  /\ pc = "long_post"
  /\ file' = Dumped(ptr, st)
  /\ dumps' = dumps + 2
  /\ postruns' = postruns + 1
  /\ goReturned' = goReturned + 1
  /\ checksSince' = 0
  /\ pc' = "after_go"
  /\ goDone' = goDone \cup {i + 1}
  /\ ranWith' = [ranWith EXCEPT ![i + 1] = stage_len]
  /\ UNCHANGED <<ranks, aside, hooks>>
  /\ UNCHANGED <<marker, args, fr_norestart, mgr, elapsed, loop, golocals,
                 script, probe, exc, status, launches, runCount, otherSeen,
                 ptrGiven, ends, shutdowns, markerAtLaunch, cursorAtLaunch,
                 frRuns, fallbacks, goCalls, runCalls, go_rec>>

\* StateManager.run: go() has returned (its locals are gone, and the stage
\* is not used again by this process); self.ptr += 1
AfterGo ==
  /\ pc = "after_go"
  /\ ptr' = NextCursor(ptr)
  /\ it' = 0 /\ tries' = 0 /\ total_time' = 0
  /\ stage_len' = StageLen /\ additional' = Additional
  /\ conf_len' = StageLen /\ conf_additional' = Additional
  /\ runCalls' = 0 /\ postruns' = 0 /\ go_rec' = NoRec
  /\ pc' = "stage_check"
  /\ UNCHANGED <<ranks, aside, progress, hooks>>
  /\ UNCHANGED <<disk, args, fr_norestart, run_no, st, elapsed, loop, probe,
                 exc, status, jobhist, invhist, goCalls, checksSince>>

\* StateManager.run: self.time_check() after the cursor moved
StageTimeCheck ==
  /\ pc = "stage_check"
  /\ checksSince' = checksSince + 1
  /\ IF TimeCheckRaises(elapsed, max_time, DeltaSafe)
     THEN /\ file' = Dumped(ptr, st)
          /\ dumps' = dumps + 1
          /\ exc' = "NoTimeLeft"
          /\ pc' = "exit"
     ELSE /\ pc' = "stage_dump"
          /\ UNCHANGED <<file, dumps, exc>>
  /\ UNCHANGED <<ranks, aside, progress, hooks>>
  /\ UNCHANGED <<marker, args, fr_norestart, mgr, elapsed, loop, golocals,
                 script, probe, status, jobhist, ends, shutdowns,
                 markerAtLaunch, cursorAtLaunch, frRuns, fallbacks, goCalls,
                 runCalls, postruns, go_rec>>

\* StateManager.run: self.dump_callback() at the end of the loop body
StageDump ==
  /\ pc = "stage_dump"
  /\ file' = Dumped(ptr, st)
  /\ dumps' = dumps + 1
  /\ i' = i + 1
  /\ pc' = "loop"
  /\ UNCHANGED <<ranks, aside, progress, hooks>>
  /\ UNCHANGED <<marker, args, fr_norestart, mgr, elapsed, last_ptr,
                 run_endflag, golocals, script, probe, exc, status, jobhist,
                 ends, shutdowns, markerAtLaunch, cursorAtLaunch, frRuns,
                 fallbacks, calls>>

\* StateManager.run: self.end()
End ==
  /\ pc = "end"
  /\ ends' = ends + 1
  /\ pc' = "exit"
  /\ UNCHANGED <<ranks, aside, progress, hooks>>
  /\ UNCHANGED <<disk, args, fr_norestart, mgr, elapsed, loop, golocals,
                 script, probe, exc, status, jobhist, dumps, shutdowns,
                 markerAtLaunch, cursorAtLaunch, frRuns, fallbacks, calls>>

\* StateManager.__exit__: shutdown, lmp.close, norestart() unless NoTimeLeft
Exit ==
  /\ pc = "exit"
  /\ shutdowns' = shutdowns + ShutdownCalls(exc)
  /\ marker' = (marker \/ ExitMarks(exc, rank))
  /\ pc' = "finally"
  /\ UNCHANGED <<ranks, aside, progress, hooks>>
  /\ UNCHANGED <<file, args, fr_norestart, mgr, elapsed, loop, golocals,
                 script, probe, exc, status, jobhist, dumps, ends,
                 markerAtLaunch, cursorAtLaunch, frRuns, fallbacks, calls>>

\* AZAZ.main: except NoTimeLeft / finally dumpit on rank 0; then Barrier,
\* Finalize and return 0, or the exception leaves the process
Finally ==
  /\ pc = "finally"
  /\ file' = IF FinalDumps(rank) THEN DumpOf(ptr, run_no, st) ELSE file
  /\ status' = IF exc = "none" \/ Swallowed(exc) THEN "ok" ELSE "error"
  /\ pc' = "done"
  /\ UNCHANGED <<ranks, aside, progress, hooks>>
  /\ UNCHANGED <<marker, args, fr_norestart, mgr, elapsed, loop, golocals,
                 script, probe, exc, jobhist, invhist, calls>>

Next ==
  \/ Reborn
  \/ \E r \in 0..1, ef \in BOOLEAN, pa \in PtrArgs, mt \in 0..MaxTime,
        nr \in BOOLEAN : Launch(r, ef, pa, mt, nr)
  \/ \E rf \in BOOLEAN, got \in BOOLEAN : Restart(rf, got)
  \/ ReadRestart
  \/ FirstRun
  \/ RunEnter
  \/ \E L \in (StageLen - 1)..StageLen, E \in 0..MaxAdditional :
        LoopNext(L, E)
  \/ FastGoBegin
  \/ \E d \in 0..1, ok \in BOOLEAN : FastRun(d, ok)
  \/ LongGoBegin
  \/ \E d \in 0..1, ok \in BOOLEAN : LongIter(d, ok)
  \/ LongTimeCheck
  \/ LongPost
  \/ AfterGo
  \/ StageTimeCheck
  \/ StageDump
  \/ End
  \/ Exit
  \/ Finally

Spec == Init /\ [][Next]_vars

\* ------------------------------------------------- the ranks of one worker
\* Every rank of a worker started in an empty job directory runs AZAZ.main:
\* first_run, the stage loop, __exit__, the finally clause, then Barrier and
\* Finalize. The ranks are separate processes, each with its own clock
\* (starttime is taken by each in init). The stage loop holds no collective
\* operation of its own; the engine commands of a stage's work are collective
\* over comm, so a work function returns on a rank only after every rank has
\* entered the go() of that stage.

\* every rank is at the head of the stage loop
InitAllRanks ==
  /\ wpc = [r \in Ranks |-> "loop"]
  /\ wptr = [r \in Ranks |-> PtrDefault]
  /\ wexc = [r \in Ranks |-> "none"]
  /\ wclock = [r \in Ranks |-> 0]
  /\ wmax_time \in 0..MaxTime
  /\ wentered = [r \in Ranks |-> 0]
  /\ wfile = NoSlot
  /\ wfinal = FALSE

RanksInit == InitWorker /\ InitAllRanks /\ InitAside

\* the collective of the engine inside the work of stage number s
AllEntered(s) == \A q \in Ranks : wentered[q] > s

\* dump_callback() on rank r: state.json gets the cursor of rank 0
RankDumped(r) == IF DumpWrites(r) THEN wptr[r] ELSE wfile

\* StateManager.run: the head of the loop; stage.attach and the entry of
\* stage.go(), or self.end() after the last stage
RankLoop(r) ==
  /\ wpc[r] = "loop"
  /\ IF wptr[r] < NStages
     THEN /\ wpc' = [wpc EXCEPT ![r] = "go"]
          /\ wentered' = [wentered EXCEPT ![r] = @ + 1]
     ELSE /\ wpc' = [wpc EXCEPT ![r] = "exit"]
          /\ UNCHANGED wentered
  /\ UNCHANGED <<worker, aside, wptr, wexc, wclock, wmax_time, wfile, wfinal>>

\* stage.go() returns after d ticks and self.ptr += 1, or its work raises
RankGo(r, d, ok) ==
  /\ wpc[r] = "go"
  /\ wclock[r] + d <= MaxTime
  /\ wclock' = [wclock EXCEPT ![r] = @ + d]
  /\ IF ok
     THEN /\ AllEntered(wptr[r])
          /\ wptr' = [wptr EXCEPT ![r] = @ + 1]
          /\ wpc' = [wpc EXCEPT ![r] = "stage_check"]
          /\ UNCHANGED wexc
     ELSE /\ wexc' = [wexc EXCEPT ![r] = "Other"]
          /\ wpc' = [wpc EXCEPT ![r] = "exit"]
          /\ UNCHANGED wptr
  /\ UNCHANGED <<worker, aside, wmax_time, wentered, wfile, wfinal>>

\* StateManager.run: self.time_check() on the clock of rank r
RankTimeCheck(r) ==
  /\ wpc[r] = "stage_check"
  /\ IF TimeCheckRaises(wclock[r], wmax_time, DeltaSafe)
     THEN /\ wfile' = RankDumped(r)
          /\ wexc' = [wexc EXCEPT ![r] = "NoTimeLeft"]
          /\ wpc' = [wpc EXCEPT ![r] = "exit"]
     ELSE /\ wpc' = [wpc EXCEPT ![r] = "stage_dump"]
          /\ UNCHANGED <<wfile, wexc>>
  /\ UNCHANGED <<worker, aside, wptr, wclock, wmax_time, wentered, wfinal>>

\* StateManager.run: self.dump_callback() at the end of the loop body
RankDump(r) ==
  /\ wpc[r] = "stage_dump"
  /\ wfile' = RankDumped(r)
  /\ wpc' = [wpc EXCEPT ![r] = "loop"]
  /\ UNCHANGED <<worker, aside, wptr, wexc, wclock, wmax_time, wentered,
                 wfinal>>

\* StateManager.__exit__, then AZAZ.main: except NoTimeLeft / finally dumpit
\* on rank 0; an exception that is not swallowed leaves the process here,
\* otherwise the rank enters MPI.COMM_WORLD.Barrier()
RankFinally(r) ==
  /\ wpc[r] = "exit"
  /\ wfile' = IF FinalDumps(r) THEN wptr[r] ELSE wfile
  /\ wfinal' = (wfinal \/ FinalDumps(r))
  /\ wpc' = [wpc EXCEPT ![r] = IF wexc[r] = "none" \/ Swallowed(wexc[r])
                                 THEN "barrier" ELSE "failed"]
  /\ UNCHANGED <<worker, aside, wptr, wexc, wclock, wmax_time, wentered>>

\* AZAZ.main: the Barrier is passed once every rank has entered it; then
\* MPI.Finalize() and return 0
RankBarrier(r) ==
  /\ wpc[r] = "barrier"
  /\ \A q \in Ranks : wpc[q] \in {"barrier", "exited"}
  /\ wpc' = [wpc EXCEPT ![r] = "exited"]
  /\ UNCHANGED <<worker, aside, wptr, wexc, wclock, wmax_time, wentered, wfile,
                 wfinal>>

RanksNext ==
  \/ \E r \in Ranks : RankLoop(r)
  \/ \E r \in Ranks, d \in 0..1, ok \in BOOLEAN : RankGo(r, d, ok)
  \/ \E r \in Ranks : RankTimeCheck(r)
  \/ \E r \in Ranks : RankDump(r)
  \/ \E r \in Ranks : RankFinally(r)
  \/ \E r \in Ranks : RankBarrier(r)

RanksSpec == RanksInit /\ [][RanksNext]_vars

\* --------------------------------------------------------- the JSON decoder

\* the documents and the registries the decoder is run on
FlatObjects == {Obj(t, v, Null) : t \in Discriminators, v \in 0..MaxVal}
Documents ==
  {Obj(t, v, c) : t \in Discriminators, v \in 0..MaxVal,
                  c \in FlatObjects \cup {Null}}
Registries == {<<>>, <<"A">>, <<"B">>, <<"A", "B">>, <<"B", "A">>}

CodecInit ==
  /\ InitWorker /\ InitRanks
  /\ document \in Documents /\ types2dec \in Registries /\ decoded = Pending
  /\ cap_cfg = "release" /\ InitCapture /\ InitJob

\* json.load(fp, cls=MakeDecoder(types2dec))
Decode ==
  /\ decoded = Pending
  /\ decoded' = Loads(document, types2dec)
  /\ UNCHANGED <<worker, ranks, capture, job, document, types2dec>>

CodecNext == Decode

CodecSpec == CodecInit /\ [][CodecNext]_vars

\* -------------------------------------------------------- the capture scopes

CaptureInit ==
  /\ InitWorker /\ InitRanks /\ InitCodec
  /\ cap_cfg \in {"yes", "no", "release"}
  /\ InitCapture /\ InitJob

\* `with capture.file(file, do_capture):` is entered (the scopes of
\* StateManager name neither; a stage's code can, inside the scope of go()).
\* arg is the caller's do_capture, f the file.
CaptureEnter(arg, f) ==
  /\ raised = "none"
  /\ Len(scopes) < MaxDepth /\ entered < MaxScopes
  /\ entered' = entered + 1
  /\ IF Cap(cap_cfg, arg)
     THEN /\ fds' = Redirected(fds, f)
          /\ scopes' = Append(scopes,
                Scope(TRUE, LowestFree(fds),
                      LowestFree([fds EXCEPT ![LowestFree(fds)] = f]),
                      fds[1]))
     ELSE /\ scopes' = Append(scopes, Scope(FALSE, 0, 0, fds[1]))
          /\ UNCHANGED fds
  /\ UNCHANGED <<worker, ranks, codec, job, cap_cfg, raised, out, left>>

\* the body of the innermost scope prints a line to descriptor 1 and goes
\* on, or raises (NoTimeLeft from time_check, or any other exception)
CaptureWork(outcome) ==
  /\ raised = "none" /\ scopes # <<>>
  /\ out[fds[1]] < MaxLines
  /\ out' = [out EXCEPT ![fds[1]] = @ + 1]
  /\ raised' = outcome
  /\ UNCHANGED <<worker, ranks, codec, job, cap_cfg, fds, scopes, entered,
                 left>>

\* the innermost scope is left, by the end of its body or by the exception
\* on its way out: OutputCaptureFile.__exit__
CaptureExit ==
  /\ scopes # <<>>
  /\ LET sc == scopes[Len(scopes)]
     IN /\ fds' = IF sc.do_capture THEN Restored(fds, sc) ELSE fds
        /\ left' = sc
  /\ scopes' = SubSeq(scopes, 1, Len(scopes) - 1)
  /\ UNCHANGED <<worker, ranks, codec, job, cap_cfg, raised, entered, out>>

CaptureNext ==
  \/ \E arg \in {"yes", "no", "none"}, f \in {"capturedump", "other"} :
        CaptureEnter(arg, f)
  \/ \E outcome \in {"none", "NoTimeLeft", "Other"} : CaptureWork(outcome)
  \/ CaptureExit

CaptureSpec == CaptureInit /\ [][CaptureNext]_vars

\* ------------------------------------------------------ the resubmitted job

\* A job followed through its invocations, as its rank 0 sees it: the
\* driver and the worker run without --ptr, every go() of a fast stage and
\* every iteration of the long stage returns, after d ticks, and the module
\* gives the long stage StageLen iterations. The job is submitted
\* again after every exit by NoTimeLeft.
JobInit == InitWorker /\ InitRanks /\ InitCodec /\ cap_cfg = "release"
           /\ InitCapture /\ InitJob

\* the checkpoint as far as the job is followed: the cursor and the
\* iterations of the long stage
JobDump(p, n) == [ptr |-> p, tries |-> n]

\* AZAZ.reborn (state.json loaded, the command line's ptr laid over it,
\* dumpit) and the start of the worker it submits, with --max_time mt:
\* AZAZ.__init__ again, StateManager.run up to the loop
JobSubmit(mt) ==
  /\ jpc \in {"queued", "stopped"}
  /\ jfile' = JobDump(ArgPtr(<<>>), jfile.tries)
  /\ jptr' = ArgPtr(<<>>) /\ jlast_ptr' = ArgPtr(<<>>) /\ ji' = 0
  /\ jtries' = jfile.tries
  /\ jclock' = 0 /\ jmax_time' = mt
  /\ jpc' = "loop"
  /\ UNCHANGED <<worker, ranks, codec, capture, jmarker>>

\* StateManager.run: the head of the loop
JobLoop ==
  /\ jpc = "loop"
  /\ IF ji >= NStages THEN jpc' = "end" /\ UNCHANGED ji
     ELSE IF Skipped(ji, jlast_ptr) THEN ji' = ji + 1 /\ UNCHANGED jpc
     ELSE jpc' = "go" /\ UNCHANGED ji
  /\ UNCHANGED <<worker, ranks, codec, capture, jfile, jmarker, jptr,
                 jlast_ptr, jtries, jclock, jmax_time>>

\* FastStage.go, with its checkpoints, and self.ptr += 1
JobFastGo(d) ==
  /\ jpc = "go" /\ StageKind[ji + 1] = "fast"
  /\ jclock' = jclock + d
  /\ jfile' = JobDump(jptr, jtries)
  /\ jptr' = NextCursor(jptr)
  /\ jpc' = "check"
  /\ UNCHANGED <<worker, ranks, codec, capture, jmarker, ji, jlast_ptr,
                 jtries, jmax_time>>

\* LongStage.go: one iteration and its time check, or the end of the loop,
\* the checkpoints after it and self.ptr += 1
JobLongGo(d) ==
  /\ jpc = "go" /\ StageKind[ji + 1] = "long"
  /\ IF InRange(jtries, StageLen)
     THEN /\ jclock' = jclock + d
          /\ jtries' = CountTry(jtries)
          /\ IF TimeCheckRaises(jclock', jmax_time, DeltaSafe)
             THEN jfile' = JobDump(jptr, jtries') /\ jpc' = "stopped"
             ELSE UNCHANGED <<jfile, jpc>>
          /\ UNCHANGED jptr
     ELSE /\ d = 0
          /\ jfile' = JobDump(jptr, jtries)
          /\ jptr' = NextCursor(jptr)
          /\ jpc' = "check"
          /\ UNCHANGED <<jclock, jtries>>
  /\ UNCHANGED <<worker, ranks, codec, capture, jmarker, ji, jlast_ptr,
                 jmax_time>>

\* StateManager.run: time_check and dump_callback after the cursor moved;
\* NoTimeLeft ends the invocation with no marker (AZAZ.main)
JobCheck ==
  /\ jpc = "check"
  /\ jfile' = JobDump(jptr, jtries)
  /\ IF TimeCheckRaises(jclock, jmax_time, DeltaSafe)
     THEN jpc' = "stopped" /\ UNCHANGED ji
     ELSE jpc' = "loop" /\ ji' = ji + 1
  /\ UNCHANGED <<worker, ranks, codec, capture, jmarker, jptr, jlast_ptr,
                 jtries, jclock, jmax_time>>

\* StateManager.run: end(); __exit__ writes the marker, AZAZ.main the last
\* checkpoint
JobEnd ==
  /\ jpc = "end"
  /\ jmarker' = TRUE
  /\ jfile' = JobDump(jptr, jtries)
  /\ jpc' = "DONE"
  /\ UNCHANGED <<worker, ranks, codec, capture, jptr, ji, jlast_ptr, jtries,
                 jclock, jmax_time>>

JobNext ==
  \/ \E mt \in 0..JobMaxTime : JobSubmit(mt)
  \/ JobLoop
  \/ \E d \in 0..1 : JobFastGo(d)
  \/ \E d \in 0..1 : JobLongGo(d)
  \/ JobCheck
  \/ JobEnd

\* every process that can take a step does, and the orchestrator submits
\* the job again after each exit
JobSpec == JobInit /\ [][JobNext]_vars /\ WF_vars(JobNext)

\* ----------------------------------------------------------------- claims

LongKeys == {k \in Keys : StageKind[k] = "long"}
InRunScope == pc \notin {"idle", "finally", "done"}

\* C1: a worker started on an existing checkpoint with stored cursor c and
\* without --ptr (here: in a job where --ptr was never given) enters the stage
\* loop with its cursor equal to c, and calls go() on no stage with index < c.
C1_LoopStartsAtStoredCursor ==
  (restart_flag /\ ~ptrGiven /\ ~endflag) =>
     /\ (pc = "loop" => last_ptr = cursorAtLaunch)
     /\ (pc = "go" => i >= cursorAtLaunch)

\* C2: over the invocations of a job in which --ptr is never given, the
\* stored cursor never decreases, and after each invocation it equals the
\* number of stages whose go() has returned since the fresh start.
C2_Step ==
  ~ptrGiven' =>
     /\ (file.exists => file'.ptr >= file.ptr)
     /\ ((pc' = "done" /\ rank' = 0) => file'.ptr = goReturned')

C2_StoredCursorCountsStages == [][C2_Step]_vars

\* C3: a LongStage resumed from a record with k completed iterations runs
\* exactly the iterations k, k+1, ..., N-1, in increasing order, each once;
\* over all invocations of the job no iteration is run twice and, when the
\* loop is over, every iteration 0..N-1 has been run exactly once.
C3_LongStageResumes ==
  \A k \in LongKeys :
     /\ \A n \in DOMAIN runCount[k] : runCount[k][n] <= 1
     /\ (pc = "long_loop" /\ i + 1 = k) =>
           /\ it = tries
           /\ \A n \in DOMAIN runCount[k] :
                 runCount[k][n] = IF n < it THEN 1 ELSE 0
     /\ (pc = "long_check" /\ i + 1 = k) =>
           /\ tries = it + 1
           /\ \A n \in DOMAIN runCount[k] :
                 runCount[k][n] = IF n <= it THEN 1 ELSE 0
     /\ (pc = "long_post" /\ i + 1 = k) =>
           \A n \in 0..(stage_len - 1) : runCount[k][n] = 1

\* a second invocation that resumed the long stage after one completed
\* iteration and has run the remaining ones
C3_Witness ==
  /\ launches = 2 /\ ptrArg = <<>> /\ pc = "long_post" /\ dumps = 4
  /\ cursorAtLaunch = 1
  /\ \E k \in LongKeys : i + 1 = k /\ file.st[k] = LongRec(0, 1)

\* C4: time_check raises NoTimeLeft exactly when the elapsed time is
\* strictly greater than max_time - delta_safe; a raise comes after one call
\* of the checkpoint callback (which on rank 0 writes the cursor and the user
\* state as they are); without a raise the callback is not called; the
\* cursor and the user state are never changed.
C4_Step ==
  (pc \in {"long_check", "stage_check"}) =>
     /\ ((exc' = "NoTimeLeft") <=> (elapsed > max_time - DeltaSafe))
     /\ (exc' = "NoTimeLeft") =>
           /\ dumps' = dumps + 1
           /\ (rank = 0 => file' = DumpOf(ptr, run_no, st))
     /\ (exc' # "NoTimeLeft") => (dumps' = dumps /\ file' = file)
     /\ ptr' = ptr /\ st' = st

C5_NoTimeLeftLeavesNoMarker ==
  (pc = "done" /\ exc = "NoTimeLeft") =>
     /\ status = "ok"
     /\ (~markerAtLaunch => ~marker)

\* C6: an invocation that runs the stage loop to its end without an
\* exception calls end() exactly once, after the last stage, and leaves the
\* stored cursor at the number of stages and the terminal marker present.
C6_Original ==
  /\ (pc = "end" /\ ~run_endflag) => (i = NStages /\ ends = 0)
  /\ (pc = "done" /\ exc = "none" /\ ~run_endflag) =>
        /\ ends = 1
        /\ rank = 0 => (file.exists /\ file.ptr = NStages /\ marker)

\* C6 amended: the same, for an invocation whose cursor at the loop's entry
\* is at most the number of stages.
C6_DoneFinalizes ==
  /\ (pc = "end" /\ ~run_endflag) => (i = NStages /\ ends = 0)
  /\ (pc = "done" /\ exc = "none" /\ ~run_endflag) =>
        /\ ends = 1
        /\ rank = 0 => (file.exists /\ marker)
        /\ (rank = 0 /\ last_ptr <= NStages) => file.ptr = NStages

\* all the stages were run by this invocation, in a directory without marker
C6_Witness ==
  /\ pc = "done" /\ exc = "none" /\ ~run_endflag /\ rank = 0 /\ last_ptr = 0
  /\ ~markerAtLaunch /\ marker /\ file.ptr = NStages /\ ends = 1

\* C7: when the run scope is left by an exception other than NoTimeLeft,
\* the exception leaves the worker (error exit), and on rank 0 the terminal
\* marker exists and the final checkpoint is written.
C7_FailureMarksAndPropagates ==
  (pc = "done" /\ exc \notin {"none", "NoTimeLeft"}) =>
     /\ status = "error"
     /\ (rank = 0 => (marker /\ file = DumpOf(ptr, run_no, st)))

\* a stage's work raised on rank 0 in a directory without marker
C7_Witness ==
  /\ pc = "done" /\ exc = "Other" /\ rank = 0 /\ ~markerAtLaunch /\ marker
  /\ status = "error"

\* C8: however the run scope of an invocation is left, shutdown() has run
\* exactly once afterwards, and never before.
C8_ShutdownOnce ==
  /\ (pc \in {"finally", "done"}) => shutdowns = 1
  /\ InRunScope => shutdowns = 0

\* the scope was left after FirstRunFallback and a first run cut by NoTimeLeft
C8_Witness ==
  /\ pc = "done" /\ fallbacks = 1 /\ frRuns = 1 /\ exc = "NoTimeLeft"
  /\ shutdowns = 1

\* C9: restart selection, a missing slot counting as step -1: both absent
\* raises FirstRunFallback; otherwise slot A exactly when step(A) > step(B),
\* slot B in every other case, ties included.
C9_FindRestart ==
  (restartpath \notin {"none", "explicit"}) =>
     /\ (step_a = -1 /\ step_b = -1) => restartpath = "FirstRunFallback"
     /\ ~(step_a = -1 /\ step_b = -1) =>
           /\ restartpath \in {"restart.a", "restart.b"}
           /\ (restartpath = "restart.a" <=> step_a > step_b)
           /\ (restartpath = "restart.b" <=> step_a <= step_b)

\* both slots present at the same step: slot B chosen
C9_Witness ==
  /\ pc = "read_restart" /\ step_a = step_b /\ step_a >= 0
  /\ restartpath = "restart.b"

\* C10: in a worker started where a checkpoint exists, first_run is never
\* executed.
C10_Original == restart_flag => (frRuns = 0 /\ pc # "first_run")

\* C10 amended: such a worker always enters restart() first; first_run is
\* executed only as the fallback after restart selection raised
\* FirstRunFallback, at most once and without the skip-restart signal.
C10_FirstRunOnlyAsFallback ==
  (restart_flag /\ pc # "idle") =>
     /\ frRuns <= fallbacks /\ fallbacks <= 1
     /\ (pc = "first_run" => (fallbacks = 1 /\ frRuns = 0 /\ ~fr_norestart))
     /\ (pc = "restart" => (fallbacks = 0 /\ frRuns = 0))

\* first_run has been executed, as the fallback, on an existing checkpoint
C10_Witness == restart_flag /\ frRuns = 1 /\ fallbacks = 1 /\ pc = "run"

\* C11: restart(endflag = TRUE) calls go() on no stage, leaves the cursor and
\* every progress record unchanged and, when it is over, has called end()
\* exactly once.
InRestartEnd ==
  /\ restart_flag /\ endflag /\ fallbacks = 0 /\ frRuns = 0
  /\ pc \in {"restart", "read_restart", "run", "end"}

C11_OriginalStep ==
  InRestartEnd =>
     /\ ptr' = ptr /\ st' = st
     /\ goCalls' = 0 /\ pc' \notin {"loop", "go"}
     /\ (pc' \in {"first_run", "exit"}) => ends' = 1

C11_Original == [][C11_OriginalStep]_vars

\* C11 amended: restart(endflag = TRUE) calls go() on no stage and leaves the
\* cursor and every progress record unchanged; when restart selection gives a
\* restart file it calls end() exactly once and returns; when restart
\* selection raises (FirstRunFallback, or an error of the engine) it leaves
\* without calling end().
C11_Step ==
  InRestartEnd =>
     /\ ptr' = ptr /\ st' = st
     /\ goCalls' = 0 /\ pc' \notin {"loop", "go"}
     /\ (pc' = "exit" /\ exc' = "none") => ends' = 1
     /\ (pc' = "first_run" \/ exc' # "none") => ends' = 0
     /\ ends' <= 1

C11_RestartEndOnlyFinalizes == [][C11_Step]_vars

\* restart(TRUE) has returned on a checkpoint that shows progress
C11_Witness ==
  /\ restart_flag /\ endflag /\ fallbacks = 0 /\ frRuns = 0
  /\ pc = "exit" /\ exc = "none" /\ ends = 1 /\ goCalls = 0
  /\ st[1] = FastRec(TRUE, TRUE) /\ ptrArg = <<1>> /\ ptr = 1

\* C12: FastStage.go() on a loaded record {started: TRUE, ended: FALSE} takes
\* a checkpoint that shows ended = FALSE, then calls the work function once;
\* if it returns the record gets ended = TRUE and a second checkpoint is
\* taken; if it raises the record stays as it was.
C12_Step ==
  /\ (pc = "go" /\ StageKind[i + 1] = "fast"
         /\ st[i + 1] = FastRec(TRUE, FALSE)) =>
        /\ pc' = "fast_run" /\ st' = st /\ runCalls' = 0
        /\ dumps' = dumps + 1
        /\ rank = 0 => file'.st[i + 1] = FastRec(TRUE, FALSE)
  /\ (pc = "fast_run" /\ go_rec = FastRec(TRUE, FALSE)) =>
        /\ runCalls = 0 /\ runCalls' = 1
        /\ (pc' = "after_go") =>
              /\ st'[i + 1] = FastRec(TRUE, TRUE)
              /\ dumps' = dumps + 1
              /\ rank = 0 => file'.st[i + 1] = FastRec(TRUE, TRUE)
        /\ (pc' # "after_go") => (exc' = "Other" /\ st' = st)

C12_FastStageRunsAgain == [][C12_Step]_vars

\* a fast stage found started and not ended has been run to its end
C12_Witness ==
  /\ pc = "after_go" /\ go_rec = FastRec(TRUE, FALSE) /\ rank = 0
  /\ file.st[i + 1] = FastRec(TRUE, TRUE) /\ runCalls = 1

Max0(x) == IF x > 0 THEN x ELSE 0

\* C13: a LongStage of length L and additional E run by the stage loop from
\* c completed iterations has, when its loop is over, called run() exactly
\* max(0, L + E - c) times.
C13_LongStageTarget ==
  (pc = "long_post") =>
     runCalls = Max0(conf_len + conf_additional
                       - (IF go_rec = NoRec THEN 0 ELSE go_rec.tries))

\* C14: go() of a LongStage whose record has at least as many completed
\* iterations as the target of the loop calls run() not at all, leaves the
\* record (tries and total_time) as it was and calls postrun() exactly once.
C14_NothingLeftToRun ==
  (/\ pc \in {"long_loop", "long_check", "long_post", "after_go"}
   /\ StageKind[i + 1] = "long"
   /\ go_rec # NoRec
   /\ go_rec.tries >= stage_len) =>
     /\ pc # "long_check"
     /\ runCalls = 0
     /\ st[i + 1] = go_rec
     /\ tries = go_rec.tries /\ total_time = go_rec.total_time
     /\ postruns = (IF pc = "after_go" THEN 1 ELSE 0)

\* the stage's length shrank below the iterations already completed
C14_Witness ==
  /\ pc = "after_go" /\ StageKind[i + 1] = "long" /\ go_rec # NoRec
  /\ go_rec.tries > stage_len /\ postruns = 1 /\ runCalls = 0

\* C15: no step of a worker process of a rank other than 0 changes
\* state.json, whichever checkpoint calls it makes.
C15_Step == (rank # 0 /\ pc \notin {"idle", "done"}) => file' = file

C15_OnlyPrimaryWrites == [][C15_Step]_vars

\* a process of rank 1 went through the checkpoint calls of a stage, of
\* time_check and of the exit, and no state.json exists
C15_Witness ==
  /\ rank = 1 /\ pc = "done" /\ exc = "NoTimeLeft" /\ dumps >= 3
  /\ ~file.exists

\* C17: no step of a worker process of a rank other than 0 creates the
\* NORESTART marker.
C17_Step == (rank # 0 /\ pc \notin {"idle", "done"}) => marker' = marker

C17_MarkerOnlyByPrimary == [][C17_Step]_vars

\* C19: time_check() is called at least once between the return of a stage's
\* go() and the start of the next go(), and exactly once between the return
\* of an iteration's run() and the start of the next iteration's run().
C19_TimeChecks ==
  /\ (pc = "go" /\ goCalls > 0) => checksSince >= 1
  /\ (pc = "long_loop" /\ it < stage_len /\ runCalls > 0) => checksSince = 1

\* the second iteration of the long stage is about to start, after a fast
\* stage run by the same invocation
C19_Witness ==
  /\ pc = "long_loop" /\ it < stage_len /\ runCalls = 1 /\ goCalls = 2
  /\ checksSince = 1

\* the cursor a worker loads: the one of --ptr, else the one of state.json
LoadedCursor == IF ptrArg = <<>> THEN cursorAtLaunch ELSE ptrArg[1]

\* C20: after FirstRunFallback in restart() the worker stays in its run
\* scope, runs first_run and then the stage loop from the loaded cursor, and
\* the signal brings no marker and no error exit.
C20_FallbackRunsFirstRun ==
  (restart_flag /\ fallbacks = 1) =>
     /\ (pc = "first_run") => (exc = "none" /\ frRuns = 0)
     /\ (pc = "loop") => (frRuns = 1 /\ last_ptr = LoadedCursor)
     /\ InRunScope => marker = markerAtLaunch
     /\ (pc = "done" /\ exc \in {"none", "NoTimeLeft"}) => status = "ok"
     /\ (pc = "done" /\ exc = "NoTimeLeft") => marker = markerAtLaunch

\* C16: whenever state.json records a stage boundary written by rank 0, every
\* rank has reached that boundary (its go() of the stage before it has
\* returned).
C16_CheckpointAfterAllRanks == \A q \in Ranks : wfile <= wptr[q]

\* C18: no rank's process has exited unless every rank has left its run
\* scope and entered the shutdown barrier, and rank 0 has written its final
\* checkpoint before it enters the barrier.
C18_ShutdownBarrier ==
  /\ (\E r \in Ranks : wpc[r] \in {"exited", "failed"}) =>
        \A q \in Ranks : wpc[q] \in {"barrier", "exited"}
  /\ (wpc[0] \in {"barrier", "exited"}) => wfinal

\* a step of a worker process (the driver's step leaves pc at "idle")
WorkerStep == pc \notin {"idle", "done"}

\* C22: the run counter in state.json is never negative, a start by the
\* driver with a checkpoint present adds exactly one to it, and no step of a
\* worker changes it.
C22_Step ==
  /\ file'.exists => file'.run_no >= 0
  /\ (file.exists /\ ~WorkerStep /\ file' # file) =>
        file'.run_no = file.run_no + 1
  /\ (file.exists /\ WorkerStep) => file'.run_no = file.run_no

C22_RunCounter == [][C22_Step]_vars

\* C25: run(False) entered with the cursor at c calls go() on the stages c,
\* c + 1, ... in order and each at most once; after a go() has returned the
\* cursor grows by one, then comes the time check, then the checkpoint; when
\* the time check raises NoTimeLeft the checkpoint holds the cursor already
\* grown, no later stage is started and end() is not called.
C25_Step ==
  /\ (pc = "go" /\ pc' \in {"fast_run", "long_loop"}) =>
        (i = last_ptr + goCalls /\ ptr = i /\ ~Skipped(i, last_ptr))
  /\ (pc = "after_go") => (ptr' = ptr + 1 /\ pc' = "stage_check")
  /\ (pc = "stage_check") =>
        /\ ptr = last_ptr + goCalls
        /\ IF exc' = "NoTimeLeft"
           THEN pc' = "exit" /\ (rank = 0 => file'.ptr = ptr)
           ELSE pc' = "stage_dump" /\ file' = file
  /\ (pc = "stage_dump") => (pc' = "loop" /\ (rank = 0 => file'.ptr = ptr))
  /\ (exc = "NoTimeLeft") =>
        (pc' \in {"exit", "finally", "done", "idle", "restart", "first_run"}
         /\ ends' = 0 /\ (WorkerStep => goCalls' = goCalls))

C25_StageLoopOrder == [][C25_Step]_vars

\* the time check after the second go() of an invocation has raised
C25_Witness ==
  /\ pc = "exit" /\ exc = "NoTimeLeft" /\ rank = 0
  /\ goCalls = 2 /\ runCalls = 0 /\ ptr = last_ptr + 2 /\ file.ptr = ptr
  /\ ends = 0

\* the stages with an index below cursor p have all returned from a go()
\* of the job, and the iterations below the stored count have all returned
NoMoreThanDone(f) ==
  f.exists =>
    /\ \A k \in Keys : k <= f.ptr => k \in goDone
    /\ \A k \in LongKeys : f.st[k].kind = "long" =>
          \A n \in 0..(f.st[k].tries - 1) : runCount[k][n] >= 1

\* C26 as stated: state.json never records more progress than was made.
C26_Original == NoMoreThanDone(file)

\* C26: in a job whose processes were never given --ptr, state.json never
\* records more progress than was made: the stages below the stored cursor
\* have returned from go(), the iterations below a stored count from run().
C26_NoMoreThanDone == ~ptrGiven => NoMoreThanDone(file)

\* all stages are behind the stored cursor, two iterations are recorded
C26_Witness ==
  /\ ~ptrGiven /\ file.exists /\ file.ptr = NStages
  /\ file.st[2].kind = "long" /\ file.st[2].tries = StageLen

\* the record of stage k is complete: a fast stage started and ended, a long
\* stage with at least as many iterations as the target it last ran with
Complete(s, k) ==
  IF StageKind[k] = "fast" THEN s[k] = FastRec(TRUE, TRUE)
  ELSE s[k].kind = "long" /\ k \in goDone /\ s[k].tries >= ranWith[k]

BehindCursorComplete(f) ==
  f.exists => \A k \in Keys : k <= f.ptr => Complete(f.st, k)

\* C27 as stated: the stages behind the stored cursor have complete records
\* (state.json is compared with what the processes of rank 0 did, which are
\* the ones that write it).
C27_Original == (rank = 0) => BehindCursorComplete(file)

\* C27: in a job whose processes were never given --ptr, every stage behind
\* the cursor of state.json has a complete record there.
C27_BehindCursorComplete ==
  (~ptrGiven /\ rank = 0) => BehindCursorComplete(file)

\* the whole job is behind the stored cursor, the long stage ran to StageLen
C27_Witness ==
  /\ ~ptrGiven /\ rank = 0 /\ file.exists /\ file.ptr = NStages
  /\ ranWith[2] = StageLen /\ file.st[3] = FastRec(TRUE, TRUE)

\* C28: when an iteration of a long stage is about to start after another
\* one of the same go() has returned, state.json on rank 0 holds at least
\* as many completed iterations as have returned.
C28_IterationsDurable ==
  (pc = "long_loop" /\ rank = 0 /\ runCalls > 0 /\ it < stage_len) =>
     (file.st[i + 1].kind = "long" /\ file.st[i + 1].tries >= it)

\* the hooks of kind h called by this invocation, as positions in hooks
Called(h) == {n \in DOMAIN hooks : hooks[n] = h}

\* C29: once a worker has entered the stage loop its startup hook has been
\* called exactly once, and where build was called (first_run) it was called
\* before startup.
C29_StartupOnce ==
  (pc \notin {"idle", "restart", "read_restart", "first_run"}) =>
     /\ Cardinality(Called("startup")) = 1
     /\ \A b \in Called("build") : \A u \in Called("startup") : b < u

\* C30: in a worker started with a cursor in 0..NStages the cursor stays in
\* 0..NStages, in memory and in what the worker writes, and it is NStages
\* whenever end() is called by run(False).
C30_Step ==
  (pc' # "idle" /\ ArgPtr(ptrArg') \in 0..NStages) =>
     /\ ptr' \in 0..NStages
     /\ (file' # file) => file'.ptr \in 0..NStages
     /\ (pc' = "end" /\ ~run_endflag') => ptr' = NStages

C30_CursorInRange == [][C30_Step]_vars

\* end() is about to be called by a worker started with --ptr 1
C30_Witness ==
  /\ pc = "end" /\ ~run_endflag /\ ptrArg = <<1>> /\ last_ptr = 1
  /\ ptr = NStages /\ goCalls = 2 /\ rank = 0 /\ file.ptr = NStages

\* the failure of a decoder that refuses a discriminator
UnknownType == [kind |-> "UnknownType"]

\* the objects of a document whose "__type" names no class of the registry
UnknownIn(doc, reg) ==
  {o \in {doc, doc.child} :
     o.kind = "object" /\ o.type # "absent" /\ Lookup(reg, o.type, 1) = "none"}

\* C23: decoding a document with an object whose "__type" matches no class
\* of the registry ends in UnknownType, and never gives the object back as a
\* plain mapping.
C23_UnknownTypeFails ==
  (decoded # Pending /\ UnknownIn(document, types2dec) # {}) =>
     decoded = UnknownType

\* C24: a capture scope entered with capturing enabled leaves descriptor 1
\* on what it referred to at the entry and its duplicate closed, whether
\* the body returned or raised; a scope entered with capturing disabled
\* changes no descriptor, and neither does the body of a scope.
C24_Step ==
  /\ (Len(scopes') < Len(scopes)) =>
        LET sc == scopes[Len(scopes)]
        IN IF sc.do_capture
           THEN /\ fds'[1] = sc.entry
                /\ fds'[sc.stdout_orig] = "closed" /\ fds'[sc.fp] = "closed"
           ELSE fds' = fds
  /\ (Len(scopes') > Len(scopes) /\ ~scopes'[Len(scopes')].do_capture) =>
        fds' = fds
  /\ (Len(scopes') = Len(scopes)) => fds' = fds
  /\ (scopes' = <<>>) =>
        (fds'[1] = "terminal" /\ \A n \in 2..MaxFd : fds'[n] = "closed")

C24_CaptureRestores == [][C24_Step]_vars

\* two capturing scopes, one inside the other and on different files, have
\* been left, the outer one by NoTimeLeft
C24_Witness ==
  /\ raised = "NoTimeLeft" /\ scopes = <<>> /\ entered = 2
  /\ left.do_capture /\ left.entry = "terminal"
  /\ out["capturedump"] = 1 /\ out["other"] = 1
  /\ fds[1] = "terminal"

\* C21: a job that is submitted again after every exit by NoTimeLeft, each
\* invocation completing at least one go() or one iteration before its time
\* check raises, reaches DONE: the stored cursor is the number of stages and
\* the marker is written.
C21_JobReachesDone ==
  <>(jpc = "DONE" /\ jfile.ptr = NStages /\ jmarker)

====
